---- MODULE Spec2Model ----
(***************************************************************************)
(* Fac3Lab: the command-line face-recognition tool (recognition.py) and    *)
(* its graphical launcher (frp.py).                                        *)
(*                                                                         *)
(* An embedding is modelled as a point on a line, in tenths; the library's *)
(* compare_faces matches two embeddings when their distance is within its  *)
(* tolerance.  An image is either unreadable or the sequence of the        *)
(* embeddings of the faces the library detects in it.                      *)
(***************************************************************************)
EXTENDS Integers, Sequences, FiniteSets

VARIABLES
    trainingData,            \* what glob("*/*") yields: <<[label, image], ...>>
    storeFile,               \* output/encodings.pkl: Absent or its serialized content
    args,                    \* the parsed command line
    pc,                      \* position of the command-line process
    individual_names,        \* process_known_faces: labels collected so far
    face_encodings,          \* process_known_faces: embeddings collected so far
    fileIdx,                 \* process_known_faces: training files consumed
    stored_encodings,        \* detect_faces: the loaded store
    unknown_face_encodings,  \* detect_faces: embeddings of the faces of the image
    faceIdx,                 \* detect_faces: faces handled so far
    name,                    \* detect_faces: the local `name`
    canvas,                  \* detect_faces: drawing operations on the image
    shown,                   \* images displayed by the current invocation
    calls,                   \* detect_faces calls started by the current invocation
    valPending,              \* check_model_performance: entries still to visit
    caller,                  \* who called detect_faces: "validate" or "test"
    ran,                     \* modes the current invocation has entered, in order
    runs,                    \* invocations started
    lastWritten,             \* the dictionary dumped by the last completed training
    storeBefore,             \* storeFile as the current invocation found it
    guiPc,                   \* position of the launcher
    filename,                \* open_file_dialog: the local `filename`
    spawned,                 \* argument lists of the child processes spawned
    clicks                   \* button clicks so far

vars == <<trainingData, storeFile, args, pc, individual_names, face_encodings,
          fileIdx, stored_encodings, unknown_face_encodings, faceIdx, name,
          canvas, shown, calls, valPending, caller, ran, runs, lastWritten,
          storeBefore, guiPc, filename, spawned, clicks>>

cliVars == <<args, pc, individual_names, face_encodings, fileIdx,
             stored_encodings, unknown_face_encodings, faceIdx, name, canvas,
             shown, calls, valPending, caller, ran>>
guiVars == <<guiPc, filename, spawned, clicks>>

----------------------------------------------------------------------------
(* Bounds *)
MaxFiles == 2      \* training files per directory
MaxFaces == 2      \* faces detected in one image
MaxStore == 4      \* entries of a store handed to the matcher
MaxValFiles == 1   \* entries under validation_data
MaxRuns == 2       \* command-line invocations
MaxClicks == 2     \* launcher button clicks

----------------------------------------------------------------------------
(* Values *)
None == "None"
Unknown == "Unknown"
Absent == [exists |-> FALSE, bytes |-> <<>>]
Unreadable == [readable |-> FALSE, faces |-> <<>>]
Labels == {"Alice", "Bob"}
Encodings == {0, 5, 10}
Tolerance == 6
Paths == {"a.jpg", "b.jpg"}

Min(a, b) == IF a <= b THEN a ELSE b

SeqsUpTo(S, n) == UNION {[1..k -> S] : k \in 0..n}

FaceSeqs == SeqsUpTo(Encodings, MaxFaces)
Images == {Unreadable} \cup {[readable |-> TRUE, faces |-> fs] : fs \in FaceSeqs}
TrainingFiles == [label : Labels, image : Images]
TrainingDirs == SeqsUpTo(TrainingFiles, MaxFiles)

\* the training files of the command-line scenarios: one face, another label,
\* no face, unreadable
SampleFiles ==
    {[label |-> "Alice", image |-> [readable |-> TRUE, faces |-> <<0>>]],
     [label |-> "Bob", image |-> [readable |-> TRUE, faces |-> <<10>>]],
     [label |-> "Alice", image |-> [readable |-> TRUE, faces |-> <<>>]],
     [label |-> "Bob", image |-> Unreadable]}
SampleDirs == SeqsUpTo(SampleFiles, MaxFiles)

EmptyStore == [names |-> <<>>, encodings |-> <<>>]
PriorStore == [names |-> <<"Bob">>, encodings |-> <<10>>]

----------------------------------------------------------------------------
(* pickle: the store file holds a flat token sequence *)

StrTok(s) == [s |-> s, n |-> 0]
IntTok(n) == [s |-> "", n |-> n]

dump(d) ==
    <<StrTok("names"), IntTok(Len(d.names))>>
        \o [i \in 1..Len(d.names) |-> StrTok(d.names[i])]
        \o <<StrTok("encodings"), IntTok(Len(d.encodings))>>
        \o [i \in 1..Len(d.encodings) |-> IntTok(d.encodings[i])]

load(bytes) ==
    LET n == bytes[2].n
        m == bytes[n + 4].n
    IN  [names |-> [i \in 1..n |-> bytes[i + 2].s],
         encodings |-> [i \in 1..m |-> bytes[i + n + 4].n]]

----------------------------------------------------------------------------
(* face_recognition.compare_faces, collections.Counter *)

Distance(a, b) == IF a >= b THEN a - b ELSE b - a

compare_faces(known, unknown) ==
    [i \in 1..Len(known) |-> Distance(known[i], unknown) <= Tolerance]

\* mutant: the `if match` filter is lost, every stored name votes
matching_names_all(matches, names, i) ==
    SubSeq(names, i, Min(Len(matches), Len(names)))

\* name for match, name in zip(matches, names) if match
RECURSIVE matching_names(_, _, _)
matching_names(matches, names, i) ==
    IF i > Min(Len(matches), Len(names)) THEN <<>>
    ELSE (IF matches[i] THEN <<names[i]>> ELSE <<>>)
             \o matching_names(matches, names, i + 1)

CountOf(s, x) == Cardinality({i \in 1..Len(s) : s[i] = x})

\* the keys of Counter(s), in insertion (first-seen) order
RECURSIVE CounterKeys(_)
CounterKeys(s) ==
    IF s = <<>> THEN <<>>
    ELSE LET front == SubSeq(s, 1, Len(s) - 1)
             last == s[Len(s)]
         IN  IF CountOf(front, last) > 0 THEN CounterKeys(front)
             ELSE Append(CounterKeys(front), last)

\* mutant: the last key of maximal count wins
RECURSIVE FirstMax_last(_, _, _, _)
FirstMax_last(keys, s, i, best) ==
    IF i > Len(keys) THEN best
    ELSE FirstMax_last(keys, s, i + 1,
                       IF CountOf(s, keys[i]) >= CountOf(s, best) THEN keys[i] ELSE best)

\* max(items, key=count): the first key of maximal count
RECURSIVE FirstMax(_, _, _, _)
FirstMax(keys, s, i, best) ==
    IF i > Len(keys) THEN best
    ELSE FirstMax(keys, s, i + 1,
                  IF CountOf(s, keys[i]) > CountOf(s, best) THEN keys[i] ELSE best)

most_common(s) == LET keys == CounterKeys(s) IN FirstMax(keys, s, 2, keys[1])

_identify_face(unknown_encoding, stored) ==
    LET matches == compare_faces(stored.encodings, unknown_encoding)
        votes == matching_names(matches, stored.names, 1)
    IN  IF votes # <<>> THEN most_common(votes) ELSE None

\* rectangle round the face, label background, label text
_highlight_face(draw, face, text) ==
    draw \o <<[op |-> "box", face |-> face, text |-> ""],
              [op |-> "label_bg", face |-> face, text |-> text],
              [op |-> "text", face |-> face, text |-> text]>>

----------------------------------------------------------------------------
(* argparse *)

Flags == {"--train", "--validate", "--test"}

CommandLine(train, validate, test, f) ==
    (IF train THEN <<"--train">> ELSE <<>>)
        \o (IF validate THEN <<"--validate">> ELSE <<>>)
        \o (IF test THEN <<"--test">> ELSE <<>>)
        \o (IF f # None THEN <<"-f", f>> ELSE <<>>)

CommandLines ==
    {CommandLine(t, v, s, f) : t \in BOOLEAN, v \in BOOLEAN, s \in BOOLEAN,
                               f \in Paths \cup {None}}

Has(argv, flag) == \E i \in 1..Len(argv) : argv[i] = flag

parse_args(argv) ==
    [train |-> Has(argv, "--train"),
     validate |-> Has(argv, "--validate"),
     test |-> Has(argv, "--test"),
     f |-> IF Has(argv, "-f")
           THEN argv[(CHOOSE i \in 1..Len(argv) : argv[i] = "-f") + 1]
           ELSE None]

NoArgs == parse_args(<<>>)

----------------------------------------------------------------------------
(* recognition.py as a process *)

\* the interpreter starts the script with the given command line
StartProcess(argv) ==
    /\ args' = parse_args(argv)
    /\ pc' = "main_train"
    /\ individual_names' = <<>>
    /\ face_encodings' = <<>>
    /\ fileIdx' = 0
    /\ stored_encodings' = EmptyStore
    /\ unknown_face_encodings' = <<>>
    /\ faceIdx' = 0
    /\ name' = None
    /\ canvas' = <<>>
    /\ shown' = 0
    /\ calls' = 0
    /\ valPending' = 0
    /\ caller' = None
    /\ ran' = <<>>
    /\ runs' = runs + 1
    /\ trainingData' = <<>>
    /\ storeBefore' = storeFile
    /\ UNCHANGED <<storeFile, lastWritten>>

Start ==
    /\ pc = "idle"
    /\ guiPc = "idle"
    /\ runs < MaxRuns
    /\ \E argv \in CommandLines : StartProcess(argv)
    /\ UNCHANGED guiVars

\* if args.train: process_known_faces(...)
MainTrain ==
    /\ pc = "main_train"
    /\ IF args.train
       THEN /\ ran' = Append(ran, "train")
            /\ individual_names' = <<>>
            /\ face_encodings' = <<>>
            /\ \E listing \in SampleDirs : trainingData' = listing
            /\ fileIdx' = 0
            /\ pc' = "train_loop"
       ELSE /\ pc' = "main_validate"
            /\ UNCHANGED <<ran, individual_names, face_encodings, fileIdx,
                           trainingData>>
    /\ UNCHANGED <<storeFile, args, stored_encodings,
                   unknown_face_encodings, faceIdx, name, canvas, shown, calls,
                   valPending, caller, runs, lastWritten, storeBefore>>
    /\ UNCHANGED guiVars

\* mutant: the name is appended once for an image, not once for a face
TrainFile_name_per_image ==
    /\ pc = "train_loop"
    /\ fileIdx < Len(trainingData)
    /\ LET file_path == trainingData[fileIdx + 1]
       IN  IF file_path.image.readable
           THEN /\ individual_names' = Append(individual_names, file_path.label)
                /\ face_encodings' = face_encodings \o file_path.image.faces
                /\ fileIdx' = fileIdx + 1
                /\ pc' = pc
           ELSE /\ pc' = "crashed"
                /\ UNCHANGED <<individual_names, face_encodings, fileIdx>>
    /\ UNCHANGED <<trainingData, storeFile, args, stored_encodings,
                   unknown_face_encodings, faceIdx, name, canvas, shown, calls,
                   valPending, caller, ran, runs, lastWritten, storeBefore>>
    /\ UNCHANGED guiVars

\* mutant: a file that cannot be loaded is skipped
TrainFile_skip_unreadable ==
    /\ pc = "train_loop"
    /\ fileIdx < Len(trainingData)
    /\ LET file_path == trainingData[fileIdx + 1]
           encoded_faces == file_path.image.faces
       IN  /\ individual_names' = individual_names
                  \o [i \in 1..Len(encoded_faces) |-> file_path.label]
           /\ face_encodings' = face_encodings \o encoded_faces
           /\ fileIdx' = fileIdx + 1
           /\ pc' = pc
    /\ UNCHANGED <<trainingData, storeFile, args, stored_encodings,
                   unknown_face_encodings, faceIdx, name, canvas, shown, calls,
                   valPending, caller, ran, runs, lastWritten, storeBefore>>
    /\ UNCHANGED guiVars

\* one iteration of the loop over training_data/*/*
TrainFile ==
    /\ pc = "train_loop"
    /\ fileIdx < Len(trainingData)
    /\ LET file_path == trainingData[fileIdx + 1]
           individual_name == file_path.label
           encoded_faces == file_path.image.faces
       IN  IF file_path.image.readable
           THEN /\ individual_names' = individual_names
                       \o [i \in 1..Len(encoded_faces) |-> individual_name]
                /\ face_encodings' = face_encodings \o encoded_faces
                /\ fileIdx' = fileIdx + 1
                /\ pc' = pc
           ELSE /\ pc' = "crashed"
                /\ UNCHANGED <<individual_names, face_encodings, fileIdx>>
    /\ UNCHANGED <<trainingData, storeFile, args, stored_encodings,
                   unknown_face_encodings, faceIdx, name, canvas, shown, calls,
                   valPending, caller, ran, runs, lastWritten, storeBefore>>
    /\ UNCHANGED guiVars

\* mutant: the dump sits inside the loop, the store is written after each file
TrainWrite_in_loop ==
    /\ pc = "train_loop"
    /\ fileIdx > 0
    /\ LET names_and_encodings ==
               [names |-> individual_names, encodings |-> face_encodings]
       IN  /\ storeFile' = [exists |-> TRUE, bytes |-> dump(names_and_encodings)]
           /\ lastWritten' = <<names_and_encodings>>
    /\ pc' = IF fileIdx = Len(trainingData) THEN "main_validate" ELSE pc
    /\ UNCHANGED <<trainingData, args, individual_names, face_encodings, fileIdx,
                   stored_encodings, unknown_face_encodings, faceIdx, name, canvas,
                   shown, calls, valPending, caller, ran, runs, storeBefore>>
    /\ UNCHANGED guiVars

\* mutant: the store is opened for appending, the new entries follow the old
TrainWrite_append ==
    /\ pc = "train_loop"
    /\ fileIdx = Len(trainingData)
    /\ LET names_and_encodings ==
               [names |-> individual_names, encodings |-> face_encodings]
           old == IF storeFile.exists THEN load(storeFile.bytes) ELSE EmptyStore
       IN  /\ storeFile' =
                  [exists |-> TRUE,
                   bytes |-> dump([names |-> old.names \o individual_names,
                                   encodings |-> old.encodings \o face_encodings])]
           /\ lastWritten' = <<names_and_encodings>>
    /\ pc' = "main_validate"
    /\ UNCHANGED <<trainingData, args, individual_names, face_encodings, fileIdx,
                   stored_encodings, unknown_face_encodings, faceIdx, name, canvas,
                   shown, calls, valPending, caller, ran, runs, storeBefore>>
    /\ UNCHANGED guiVars

\* the loop is over: open the store for writing and dump the dictionary
TrainWrite ==
    /\ pc = "train_loop"
    /\ fileIdx = Len(trainingData)
    /\ LET names_and_encodings ==
               [names |-> individual_names, encodings |-> face_encodings]
       IN  /\ storeFile' = [exists |-> TRUE, bytes |-> dump(names_and_encodings)]
           /\ lastWritten' = <<names_and_encodings>>
    /\ pc' = "main_validate"
    /\ UNCHANGED <<trainingData, args, individual_names, face_encodings, fileIdx,
                   stored_encodings, unknown_face_encodings, faceIdx, name, canvas,
                   shown, calls, valPending, caller, ran, runs, storeBefore>>
    /\ UNCHANGED guiVars

\* mutant: `elif args.validate`, the modes exclude one another
MainValidate_elif ==
    /\ pc = "main_validate"
    /\ IF ran # <<>>
       THEN /\ pc' = "done"
            /\ UNCHANGED <<ran, valPending>>
       ELSE IF args.validate
            THEN /\ ran' = Append(ran, "validate")
                 /\ \E n \in 0..MaxValFiles : valPending' = n
                 /\ pc' = "validate_loop"
            ELSE /\ pc' = "main_test"
                 /\ UNCHANGED <<ran, valPending>>
    /\ UNCHANGED <<trainingData, storeFile, args, individual_names, face_encodings,
                   fileIdx, stored_encodings, unknown_face_encodings, faceIdx, name,
                   canvas, shown, calls, caller, runs, lastWritten, storeBefore>>
    /\ UNCHANGED guiVars

\* if args.validate: check_model_performance(...)
MainValidate ==
    /\ pc = "main_validate"
    /\ IF args.validate
       THEN /\ ran' = Append(ran, "validate")
            /\ \E n \in 0..MaxValFiles : valPending' = n
            /\ pc' = "validate_loop"
       ELSE /\ pc' = "main_test"
            /\ UNCHANGED <<ran, valPending>>
    /\ UNCHANGED <<trainingData, storeFile, args, individual_names, face_encodings,
                   fileIdx, stored_encodings, unknown_face_encodings, faceIdx, name,
                   canvas, shown, calls, caller, runs, lastWritten, storeBefore>>
    /\ UNCHANGED guiVars

\* one iteration of the loop over validation_data/**
ValidateNext ==
    /\ pc = "validate_loop"
    /\ IF valPending = 0
       THEN /\ pc' = "main_test"
            /\ UNCHANGED <<valPending, caller, calls>>
       ELSE /\ valPending' = valPending - 1
            /\ \E is_file \in BOOLEAN :
                   IF is_file
                   THEN /\ caller' = "validate"
                        /\ calls' = calls + 1
                        /\ pc' = "detect_load"
                   ELSE /\ pc' = pc
                        /\ UNCHANGED <<caller, calls>>
    /\ UNCHANGED <<trainingData, storeFile, args, individual_names, face_encodings,
                   fileIdx, stored_encodings, unknown_face_encodings, faceIdx, name,
                   canvas, shown, ran, runs, lastWritten, storeBefore>>
    /\ UNCHANGED guiVars

\* if args.test: detect_faces(image_path=args.f, ...)
MainTest ==
    /\ pc = "main_test"
    /\ IF args.test
       THEN /\ ran' = Append(ran, "test")
            /\ caller' = "test"
            /\ calls' = calls + 1
            /\ pc' = "detect_load"
       ELSE /\ pc' = "done"
            /\ UNCHANGED <<ran, caller, calls>>
    /\ UNCHANGED <<trainingData, storeFile, args, individual_names, face_encodings,
                   fileIdx, stored_encodings, unknown_face_encodings, faceIdx, name,
                   canvas, shown, valPending, runs, lastWritten, storeBefore>>
    /\ UNCHANGED guiVars

\* mutant: the store is opened with mode "wb", which empties it
DetectLoad_open_wb ==
    /\ pc = "detect_load"
    /\ storeFile' = [exists |-> TRUE, bytes |-> <<>>]
    /\ pc' = "crashed"
    /\ UNCHANGED <<trainingData, args, individual_names, face_encodings, fileIdx,
                   stored_encodings, unknown_face_encodings, faceIdx, name, canvas,
                   shown, calls, valPending, caller, ran, runs, lastWritten,
                   storeBefore>>
    /\ UNCHANGED guiVars

\* detect_faces: load the font, open and unpickle the store
DetectLoad ==
    /\ pc = "detect_load"
    /\ \E font_found \in BOOLEAN :
           IF font_found /\ storeFile.exists
           THEN /\ stored_encodings' = load(storeFile.bytes)
                /\ pc' = "detect_image"
           ELSE /\ pc' = "crashed"
                /\ UNCHANGED stored_encodings
    /\ UNCHANGED <<trainingData, storeFile, args, individual_names, face_encodings,
                   fileIdx, unknown_face_encodings, faceIdx, name, canvas, shown,
                   calls, valPending, caller, ran, runs, lastWritten, storeBefore>>
    /\ UNCHANGED guiVars

\* detect_faces: load the image, locate and encode its faces, make the canvas
DetectImage ==
    /\ pc = "detect_image"
    /\ \E img \in Images :
           IF (caller = "test" /\ args.f = None) \/ ~img.readable
           THEN /\ pc' = "crashed"
                /\ UNCHANGED <<unknown_face_encodings, faceIdx, canvas>>
           ELSE /\ unknown_face_encodings' = img.faces
                /\ faceIdx' = 0
                /\ canvas' = <<>>
                /\ pc' = "detect_loop"
    /\ UNCHANGED <<trainingData, storeFile, args, individual_names, face_encodings,
                   fileIdx, stored_encodings, name, shown, calls, valPending,
                   caller, ran, runs, lastWritten, storeBefore>>
    /\ UNCHANGED guiVars

\* name = _identify_face(unknown_encoding, stored_encodings)
DetectIdentify ==
    /\ pc = "detect_loop"
    /\ faceIdx < Len(unknown_face_encodings)
    /\ name' = _identify_face(unknown_face_encodings[faceIdx + 1], stored_encodings)
    /\ pc' = "detect_highlight"
    /\ UNCHANGED <<trainingData, storeFile, args, individual_names, face_encodings,
                   fileIdx, stored_encodings, unknown_face_encodings, faceIdx,
                   canvas, shown, calls, valPending, caller, ran, runs,
                   lastWritten, storeBefore>>
    /\ UNCHANGED guiVars

\* mutant: the returned value is drawn as it is
DetectHighlight_no_substitute ==
    /\ pc = "detect_highlight"
    /\ name' = name
    /\ canvas' = _highlight_face(canvas, faceIdx + 1, name')
    /\ faceIdx' = faceIdx + 1
    /\ pc' = "detect_loop"
    /\ UNCHANGED <<trainingData, storeFile, args, individual_names, face_encodings,
                   fileIdx, stored_encodings, unknown_face_encodings, shown, calls,
                   valPending, caller, ran, runs, lastWritten, storeBefore>>
    /\ UNCHANGED guiVars

\* if not name: name = "Unknown"; _highlight_face(...)
DetectHighlight ==
    /\ pc = "detect_highlight"
    /\ name' = IF name = None \/ name = "" THEN Unknown ELSE name
    /\ canvas' = _highlight_face(canvas, faceIdx + 1, name')
    /\ faceIdx' = faceIdx + 1
    /\ pc' = "detect_loop"
    /\ UNCHANGED <<trainingData, storeFile, args, individual_names, face_encodings,
                   fileIdx, stored_encodings, unknown_face_encodings, shown, calls,
                   valPending, caller, ran, runs, lastWritten, storeBefore>>
    /\ UNCHANGED guiVars

\* del draw_tool; converted_image.show(); return to the caller, dropping the locals
DetectShow ==
    /\ pc = "detect_loop"
    /\ faceIdx = Len(unknown_face_encodings)
    /\ shown' = shown + 1
    /\ pc' = IF caller = "validate" THEN "validate_loop" ELSE "done"
    /\ stored_encodings' = EmptyStore
    /\ unknown_face_encodings' = <<>>
    /\ faceIdx' = 0
    /\ name' = None
    /\ canvas' = <<>>
    /\ UNCHANGED <<trainingData, storeFile, args, individual_names, face_encodings,
                   fileIdx, calls, valPending, caller, ran, runs, lastWritten,
                   storeBefore>>
    /\ UNCHANGED guiVars

\* the process ends, normally or on an uncaught exception: its memory is gone
Exit ==
    /\ pc \in {"done", "crashed"}
    /\ pc' = "idle"
    /\ args' = NoArgs
    /\ trainingData' = <<>>
    /\ individual_names' = <<>>
    /\ face_encodings' = <<>>
    /\ fileIdx' = 0
    /\ stored_encodings' = EmptyStore
    /\ unknown_face_encodings' = <<>>
    /\ faceIdx' = 0
    /\ name' = None
    /\ canvas' = <<>>
    /\ shown' = 0
    /\ calls' = 0
    /\ valPending' = 0
    /\ caller' = None
    /\ ran' = <<>>
    /\ storeBefore' = storeFile
    /\ guiPc' = IF guiPc = "waiting" THEN "idle" ELSE guiPc
    /\ UNCHANGED <<storeFile, runs, lastWritten, filename, spawned, clicks>>

----------------------------------------------------------------------------
(* frp.py *)

\* the "Open File" button is clicked: open_file_dialog starts
ClickOpenFile ==
    /\ guiPc = "idle"
    /\ clicks < MaxClicks
    /\ clicks' = clicks + 1
    /\ guiPc' = "dialog"
    /\ UNCHANGED <<filename, spawned>>
    /\ UNCHANGED <<trainingData, storeFile, runs, lastWritten, storeBefore>>
    /\ UNCHANGED cliVars

\* filename = filedialog.askopenfilename()
AskOpenFilename ==
    /\ guiPc = "dialog"
    /\ \E chosen \in Paths \cup {""} : filename' = chosen
    /\ guiPc' = "chosen"
    /\ UNCHANGED <<spawned, clicks>>
    /\ UNCHANGED <<trainingData, storeFile, runs, lastWritten, storeBefore>>
    /\ UNCHANGED cliVars

\* mutant: the "-f" before the path is forgotten
run_face_recognition_no_f(image_path) == <<"--test", image_path>>

run_face_recognition(image_path) == <<"--test", "-f", image_path>>

\* if filename: run_face_recognition(filename)
OpenFileDialogReturn ==
    /\ guiPc = "chosen"
    /\ IF filename # ""
       THEN /\ spawned' = Append(spawned, run_face_recognition(filename))
            /\ StartProcess(run_face_recognition(filename))
            /\ guiPc' = "waiting"
       ELSE /\ guiPc' = "idle"
            /\ UNCHANGED spawned
            /\ UNCHANGED <<trainingData, storeFile, runs, lastWritten, storeBefore>>
            /\ UNCHANGED cliVars
    /\ UNCHANGED <<filename, clicks>>

----------------------------------------------------------------------------
(* Specifications *)

InitProcess ==
    /\ args = NoArgs
    /\ pc = "idle"
    /\ individual_names = <<>>
    /\ face_encodings = <<>>
    /\ fileIdx = 0
    /\ stored_encodings = EmptyStore
    /\ unknown_face_encodings = <<>>
    /\ faceIdx = 0
    /\ name = None
    /\ canvas = <<>>
    /\ shown = 0
    /\ calls = 0
    /\ valPending = 0
    /\ caller = None
    /\ ran = <<>>
    /\ runs = 0

InitLauncher ==
    /\ guiPc = "idle"
    /\ filename = ""
    /\ spawned = <<>>
    /\ clicks = 0

\* the store is absent (fresh checkout) or left by an earlier training
InitStore ==
    \/ storeFile = Absent /\ lastWritten = <<>>
    \/ storeFile = [exists |-> TRUE, bytes |-> dump(PriorStore)]
           /\ lastWritten = <<PriorStore>>

\* the command-line tool, invoked repeatedly
Init ==
    /\ trainingData = <<>>
    /\ InitStore
    /\ storeBefore = storeFile
    /\ InitProcess
    /\ InitLauncher

Next ==
    \/ Start
    \/ MainTrain
    \/ TrainFile
    \/ TrainWrite
    \/ MainValidate
    \/ ValidateNext
    \/ MainTest
    \/ DetectLoad
    \/ DetectImage
    \/ DetectIdentify
    \/ DetectHighlight
    \/ DetectShow
    \/ Exit

Spec == Init /\ [][Next]_vars

\* the launcher, with the child processes it spawns
InitGui ==
    /\ trainingData = <<>>
    /\ InitStore
    /\ storeBefore = storeFile
    /\ InitProcess
    /\ InitLauncher

NextGui ==
    \/ ClickOpenFile
    \/ AskOpenFilename
    \/ OpenFileDialogReturn
    \/ MainTrain
    \/ MainValidate
    \/ MainTest
    \/ DetectLoad
    \/ DetectImage
    \/ DetectIdentify
    \/ DetectHighlight
    \/ DetectShow
    \/ Exit

SpecGui == InitGui /\ [][NextGui]_vars

\* process_known_faces on any training directory
InitTrain ==
    /\ trainingData \in TrainingDirs
    /\ InitStore
    /\ storeBefore = storeFile
    /\ args = parse_args(<<"--train">>)
    /\ pc = "train_loop"
    /\ individual_names = <<>>
    /\ face_encodings = <<>>
    /\ fileIdx = 0
    /\ stored_encodings = EmptyStore
    /\ unknown_face_encodings = <<>>
    /\ faceIdx = 0
    /\ name = None
    /\ canvas = <<>>
    /\ shown = 0
    /\ calls = 0
    /\ valPending = 0
    /\ caller = None
    /\ ran = <<"train">>
    /\ runs = 1
    /\ InitLauncher

NextTrain ==
    \/ TrainFile
    \/ TrainWrite
    \/ Exit

SpecTrain == InitTrain /\ [][NextTrain]_vars

\* the matcher, applied to the faces of one image against any store
Stores ==
    UNION {[names : [1..k -> Labels], encodings : [1..k -> Encodings]] :
               k \in 0..MaxStore}

InitMatch ==
    /\ trainingData = <<>>
    /\ storeFile = Absent
    /\ lastWritten = <<>>
    /\ storeBefore = storeFile
    /\ args = parse_args(run_face_recognition("a.jpg"))
    /\ pc = "detect_loop"
    /\ individual_names = <<>>
    /\ face_encodings = <<>>
    /\ fileIdx = 0
    /\ stored_encodings \in Stores
    /\ unknown_face_encodings \in FaceSeqs
    /\ faceIdx = 0
    /\ name = None
    /\ canvas = <<>>
    /\ shown = 0
    /\ calls = 1
    /\ valPending = 0
    /\ caller = "test"
    /\ ran = <<"test">>
    /\ runs = 1
    /\ InitLauncher

NextMatch ==
    \/ DetectIdentify
    \/ DetectHighlight
    \/ DetectShow

SpecMatch == InitMatch /\ [][NextMatch]_vars

----------------------------------------------------------------------------
(* What the claims speak of *)

\* the detected faces of a directory listing, in listing order
RECURSIVE DetectedFaces(_)
DetectedFaces(listing) ==
    IF listing = <<>> THEN <<>>
    ELSE LET file == Head(listing)
         IN  [i \in 1..Len(file.image.faces) |->
                  [label |-> file.label, encoding |-> file.image.faces[i]]]
                 \o DetectedFaces(Tail(listing))

SubfolderLabels(listing) == {listing[i].label : i \in 1..Len(listing)}
AllReadable(listing) == \A i \in 1..Len(listing) : listing[i].image.readable
WithFaces(listing) == SelectSeq(listing, LAMBDA file : file.image.faces # <<>>)

\* process_known_faces has returned (SpecTrain runs --train alone)
TrainingCompleted == pc \in {"main_validate", "main_test", "done"}

\* C1: once training has completed on a directory whose images yield K faces,
\* the written store has K names and K encodings, and the name at each index is
\* the subfolder of the image that produced the encoding at that index.
C1_StoreShape ==
    TrainingCompleted =>
        /\ storeFile.exists
        /\ LET store == load(storeFile.bytes)
               faces == DetectedFaces(trainingData)
               K == Len(faces)
           IN  /\ Len(store.names) = K
               /\ Len(store.encodings) = K
               /\ \A i \in 1..K :
                      /\ store.names[i] \in SubfolderLabels(trainingData)
                      /\ store.names[i] = faces[i].label
                      /\ store.encodings[i] = faces[i].encoding

C1_Witness ==
    /\ TrainingCompleted
    /\ Len(trainingData) = 2
    /\ trainingData[1].label # trainingData[2].label
    /\ Len(trainingData[1].image.faces) = 2
    /\ Len(load(storeFile.bytes).names) = 3

\* C6 as stated: whatever the files are, training ends with a store that holds
\* exactly the entries of the readable images that show a face.
C6_SkipsUnreadable ==
    pc \in {"main_validate", "main_test", "done", "crashed"} =>
        /\ storeFile.exists
        /\ LET store == load(storeFile.bytes)
               faces == DetectedFaces(trainingData)
           IN  /\ store.names = [i \in 1..Len(faces) |-> faces[i].label]
               /\ store.encodings = [i \in 1..Len(faces) |-> faces[i].encoding]

\* C6, amended: an image without a face contributes no entry and training goes
\* on, so a completed training has read every file and its store is the store
\* of the directory without the faceless images; an unreadable file ends the
\* run at that file, with the store as the run found it.
C6_FacelessSkippedUnreadableAborts ==
    /\ TrainingCompleted =>
           /\ AllReadable(trainingData)
           /\ storeFile.exists
           /\ LET faces == DetectedFaces(WithFaces(trainingData))
              IN  load(storeFile.bytes) =
                      [names |-> [i \in 1..Len(faces) |-> faces[i].label],
                       encodings |-> [i \in 1..Len(faces) |-> faces[i].encoding]]
    /\ pc = "crashed" =>
           /\ fileIdx < Len(trainingData)
           /\ ~trainingData[fileIdx + 1].image.readable
           /\ AllReadable(SubSeq(trainingData, 1, fileIdx))
           /\ storeFile = storeBefore

C6_Witness ==
    /\ TrainingCompleted
    /\ Len(trainingData) = 2
    /\ trainingData[1].image.faces = <<>>
    /\ trainingData[2].image.faces # <<>>
    /\ load(storeFile.bytes).names = <<trainingData[2].label, trainingData[2].label>>

\* C10: the store file changes only in the step that follows the last training
\* file, and then to the store of the whole directory; a file that cannot be
\* loaded stops the run there, the process ends, and the file is as it was.
C10_WriteOnlyAfterAllFiles ==
    [][/\ storeFile' # storeFile =>
              /\ pc = "train_loop"
              /\ fileIdx = Len(trainingData)
              /\ AllReadable(trainingData)
              /\ Len(load(storeFile'.bytes).names) = Len(DetectedFaces(trainingData))
       /\ (pc = "train_loop" /\ fileIdx < Len(trainingData)
               /\ ~trainingData[fileIdx + 1].image.readable) =>
              pc' = "crashed" /\ storeFile' = storeBefore
       /\ pc = "crashed" =>
              pc' = "idle" /\ storeFile' = storeBefore]_vars

C10_Witness ==
    /\ pc = "crashed"
    /\ fileIdx = 1
    /\ Len(individual_names) = 2
    /\ storeFile.exists
    /\ storeFile = storeBefore
    /\ load(storeFile.bytes) = PriorStore

----------------------------------------------------------------------------
(* The matcher *)

\* the stored entries of label l that match face k of the image
MatchingEntries(k, l) ==
    {i \in 1..Len(stored_encodings.names) :
         /\ stored_encodings.names[i] = l
         /\ Distance(stored_encodings.encodings[i], unknown_face_encodings[k])
                <= Tolerance}

Votes(k, l) == Cardinality(MatchingEntries(k, l))
NoMatch(k) == \A l \in Labels : MatchingEntries(k, l) = {}
OnlyMatches(k, l) ==
    /\ MatchingEntries(k, l) # {}
    /\ \A other \in Labels \ {l} : MatchingEntries(k, other) = {}
FirstMatch(k, l) == CHOOSE i \in MatchingEntries(k, l) :
                        \A j \in MatchingEntries(k, l) : i <= j

\* _identify_face has just returned for face faceIdx + 1
Identified == pc = "detect_highlight"

\* the text drawn for face k
LabelDrawn(k) == {canvas[i].text : i \in {j \in 1..Len(canvas) :
                      canvas[j].face = k /\ canvas[j].op = "text"}}

\* C2: with at least one match, the label returned has the most matching
\* stored entries of all labels; entries that do not match give no vote.
C2_PluralityVote ==
    (Identified /\ ~NoMatch(faceIdx + 1)) =>
        /\ name \in Labels
        /\ Votes(faceIdx + 1, name) > 0
        /\ \A l \in Labels : Votes(faceIdx + 1, l) <= Votes(faceIdx + 1, name)

C2_Witness ==
    /\ Identified
    /\ Votes(faceIdx + 1, "Alice") = 2
    /\ Votes(faceIdx + 1, "Bob") = 1
    /\ name = "Alice"
    /\ stored_encodings.names[1] = "Bob"
    /\ CountOf(stored_encodings.names, "Bob") = 2

\* C3: a face that matches no stored entry (the store may be empty) gets no
\* identity and is labelled "Unknown"; a face that matches entries of one label
\* only is labelled with that label.
C3_UnknownOrTheOnlyLabel ==
    /\ (Identified /\ NoMatch(faceIdx + 1)) => name = None
    /\ \A k \in 1..faceIdx :
           /\ NoMatch(k) => LabelDrawn(k) = {Unknown}
           /\ \A l \in Labels : OnlyMatches(k, l) => LabelDrawn(k) = {l}

C3_Witness ==
    /\ pc = "detect_loop"
    /\ faceIdx = 2
    /\ NoMatch(1)
    /\ LabelDrawn(1) = {Unknown}
    /\ OnlyMatches(2, "Alice")
    /\ \E i \in MatchingEntries(2, "Alice") :
           stored_encodings.encodings[i] = unknown_face_encodings[2]
    /\ LabelDrawn(2) = {"Alice"}

\* C4: among labels tied for the most matching entries, the one returned is
\* the one whose first matching entry comes first in the store.
C4_TieFirstSeen ==
    (Identified /\ name # None) =>
        \A l \in Labels \ {name} :
            Votes(faceIdx + 1, l) = Votes(faceIdx + 1, name) =>
                FirstMatch(faceIdx + 1, name) < FirstMatch(faceIdx + 1, l)

C4_Witness ==
    /\ Identified
    /\ name = "Bob"
    /\ Votes(faceIdx + 1, "Bob") = 2
    /\ Votes(faceIdx + 1, "Alice") = 2
    /\ stored_encodings.names[Len(stored_encodings.names)] = "Alice"

----------------------------------------------------------------------------
(* The command line *)

\* detect_faces holds the store it unpickled
StoreLoaded == pc \in {"detect_image", "detect_loop", "detect_highlight"}

\* the modes the command line selects, in the order of the script
SelectedModes(a) ==
    (IF a.train THEN <<"train">> ELSE <<>>)
        \o (IF a.validate THEN <<"validate">> ELSE <<>>)
        \o (IF a.test THEN <<"test">> ELSE <<>>)

IsPrefix(s, t) == Len(s) <= Len(t) /\ s = SubSeq(t, 1, Len(s))

\* C5: the store detect_faces loads is the dictionary the last completed
\* training dumped, names and encodings in the same order; the file on disk
\* always unpickles to that dictionary and to nothing of an earlier store.
C5_LoadsLastTraining ==
    /\ storeFile.exists =>
           /\ lastWritten # <<>>
           /\ load(storeFile.bytes) = lastWritten[1]
    /\ StoreLoaded =>
           /\ lastWritten # <<>>
           /\ stored_encodings = lastWritten[1]
    /\ (pc \in {"main_validate", "main_test", "validate_loop", "detect_load", "done"}
            /\ "train" \in {ran[i] : i \in 1..Len(ran)}) =>
           LET faces == DetectedFaces(trainingData)
           IN  load(storeFile.bytes) =
                   [names |-> [i \in 1..Len(faces) |-> faces[i].label],
                    encodings |-> [i \in 1..Len(faces) |-> faces[i].encoding]]

C5_Witness ==
    /\ StoreLoaded
    /\ runs = 2
    /\ ran = <<"test">>
    /\ storeBefore = storeFile
    /\ stored_encodings = [names |-> <<"Alice", "Bob">>, encodings |-> <<0, 10>>]

\* C7 as stated: when an invocation ends, the modes it ran are exactly the
\* modes selected, in the order train, validate, test.
C7_EverySelectedModeRuns ==
    pc \in {"done", "crashed"} => ran = SelectedModes(args)

\* C7, amended: the modes run are at every moment the first of the selected
\* modes, in the order train, validate, test; an invocation that ends normally
\* has run them all, one that fails ends in the mode that failed without
\* running the later ones; detection after a training of the same invocation
\* reads the store that training wrote.
C7_SelectedModesInOrderUntilFailure ==
    /\ IsPrefix(ran, SelectedModes(args))
    /\ pc = "done" => ran = SelectedModes(args)
    /\ pc = "crashed" => ran # <<>>
    /\ pc \in {"train_loop"} => ran[Len(ran)] = "train"
    /\ pc \in {"validate_loop"} => ran[Len(ran)] = "validate"
    /\ pc \in {"detect_load", "detect_image", "detect_loop", "detect_highlight"} =>
           ran[Len(ran)] = IF caller = "validate" THEN "validate" ELSE "test"
    /\ (StoreLoaded /\ ran[1] = "train") =>
           LET faces == DetectedFaces(trainingData)
           IN  stored_encodings =
                   [names |-> [i \in 1..Len(faces) |-> faces[i].label],
                    encodings |-> [i \in 1..Len(faces) |-> faces[i].encoding]]

C7_Witness ==
    /\ pc = "done"
    /\ ran = <<"train", "validate", "test">>
    /\ shown = 2
    /\ storeFile # storeBefore
    /\ Len(trainingData) = 2

\* C9: the store file changes only inside process_known_faces, so an invocation
\* without --train leaves it as it found it, however it ends; an image is
\* displayed with one box and one label drawn for each of its faces, once for
\* each detect_faces call that gets that far.
C9_DetectionDisplayOnly ==
    [][/\ storeFile' # storeFile => pc = "train_loop"
       /\ (pc # "idle" /\ ~args.train) => storeFile = storeBefore
       /\ shown <= calls
       /\ shown' # shown =>
              /\ pc \in {"detect_loop", "done", "crashed"}
              /\ pc = "detect_loop" => shown' = shown + 1 /\ calls' = calls
       /\ (pc = "detect_loop" /\ pc' # "detect_highlight") =>
              /\ shown' = shown + 1
              /\ Len(canvas) = 3 * Len(unknown_face_encodings)
              /\ \A k \in 1..Len(unknown_face_encodings) :
                     /\ Cardinality({i \in 1..Len(canvas) :
                            canvas[i].face = k /\ canvas[i].op = "box"}) = 1
                     /\ Cardinality({i \in 1..Len(canvas) :
                            canvas[i].face = k /\ canvas[i].op = "text"}) = 1
                     /\ Cardinality({i \in 1..Len(canvas) :
                            canvas[i].face = k /\ canvas[i].op = "label_bg"}) = 1]_vars

C9_Witness ==
    /\ pc = "detect_loop"
    /\ caller = "test"
    /\ ran = <<"validate", "test">>
    /\ shown = 1
    /\ Len(unknown_face_encodings) = 2
    /\ faceIdx = 2
    /\ Len(canvas) = 6
    /\ storeFile.exists
    /\ storeFile = storeBefore

----------------------------------------------------------------------------
(* The launcher *)

\* C8: a dialog that returns a file spawns one child with --test -f <file>, a
\* cancelled dialog spawns none, nothing else spawns, and no child is ever
\* given --train or --validate.
C8_OneTestChildPerChosenFile ==
    [][/\ Len(spawned) <= clicks
       /\ \A i \in 1..Len(spawned) :
              /\ ~Has(spawned[i], "--train")
              /\ ~Has(spawned[i], "--validate")
       /\ ~args.train /\ ~args.validate
       /\ guiPc # "chosen" => spawned' = spawned
       /\ (guiPc = "chosen" /\ filename = "") =>
              spawned' = spawned /\ pc' = "idle" /\ runs' = runs
       /\ (guiPc = "chosen" /\ filename # "") =>
              /\ spawned' = Append(spawned, <<"--test", "-f", filename>>)
              /\ runs' = runs + 1
              /\ pc' = "main_train"
              /\ args' = [train |-> FALSE, validate |-> FALSE, test |-> TRUE,
                          f |-> filename]]_vars

C8_Witness ==
    /\ clicks = 2
    /\ guiPc = "chosen"
    /\ filename = ""
    /\ spawned = <<<<"--test", "-f", "b.jpg">>>>
    /\ runs = 1

====
